---------------------------- MODULE Spec2Model ----------------------------
(***************************************************************************)
(* Model of src/src/extension.ts: the Intel HEX codec (parseIntelHex,      *)
(* buildIntelHex), the dump projection (toDumpRows) and the custom editor  *)
(* session (TaskingHexCustomEditor.resolveCustomTextEditor).               *)
(*                                                                         *)
(* Representation.  A string is a sequence of one-character strings.  A    *)
(* JavaScript number that holds an address is the pair <<hi, lo>> with     *)
(* value hi * 65536 + lo and lo in 0..65535 (hi may be negative), because  *)
(* the addresses the code computes range over -2^31 .. 2^32+2, beyond the  *)
(* integers the model checker evaluates.  Small numbers (record fields,    *)
(* byte values, counters) are plain integers.  A value that may be missing *)
(* (NaN, undefined, null) is the empty sequence, and a present value v is  *)
(* <<v>>.  In a row's ascii cell a character is its character code.        *)
(***************************************************************************)
EXTENDS Integers, Sequences, FiniteSets, TLC

VARIABLES
  \* ---- codec pipeline (SpecCodec) ----
  content,    \* the input text handed to parseIntelHex
  region,     \* the region filter handed to toDumpRows (Null: no filter)
  phase,      \* "input" | "decoded" | "encoded" | "redecoded"
  image,      \* parseIntelHex(content)
  hex,        \* buildIntelHex(image)
  reparsed,   \* parseIntelHex(hex)
  dump,       \* toDumpRows(image, region)
  \* ---- editor session (Spec) ----
  open,       \* documents with a resolved custom editor (this.panels keys)
  text,       \* document.getText(), per document
  view,       \* rows last delivered to each document's webview
  applying,   \* TaskingHexCustomEditor.applying
  handlers,   \* in-flight onDidReceiveMessage invocations, per slot
  nMsgs,      \* number of webview messages received so far
  lastMsg,    \* the message received last
  nChanges,   \* number of external document changes so far
  stray       \* some request let through so far had a negative address

codecVars == <<content, region, phase, image, hex, reparsed, dump>>
editorVars == <<open, text, view, applying, handlers, nMsgs, lastMsg, nChanges, stray>>
vars == <<content, region, phase, image, hex, reparsed, dump,
          open, text, view, applying, handlers, nMsgs, lastMsg, nChanges, stray>>

\* a missing value is << >>, a present value v is <<v>>
NaN == << >>
Null == << >>
Undefined == << >>
Some(v) == <<v>>

(***************************************************************************)
(* Characters and strings                                                  *)
(***************************************************************************)
UpperHexDigits ==
  <<"0", "1", "2", "3", "4", "5", "6", "7", "8", "9", "A", "B", "C", "D", "E", "F">>
LowerHexDigits ==
  <<"0", "1", "2", "3", "4", "5", "6", "7", "8", "9", "a", "b", "c", "d", "e", "f">>

IsHexChar(c) == \E i \in 1..16 : UpperHexDigits[i] = c \/ LowerHexDigits[i] = c
\* the character class [0-9A-F]
IsUpperHexChar(c) == \E i \in 1..16 : UpperHexDigits[i] = c
HexValue(c) == (CHOOSE i \in 1..16 : UpperHexDigits[i] = c \/ LowerHexDigits[i] = c) - 1

\* String.prototype.toUpperCase on the characters the model uses
ToUpperCase(s) ==
  [i \in 1..Len(s) |->
     IF \E k \in 11..16 : LowerHexDigits[k] = s[i]
     THEN UpperHexDigits[CHOOSE k \in 11..16 : LowerHexDigits[k] = s[i]]
     ELSE IF s[i] = "x" THEN "X" ELSE s[i]]

IsWhiteSpace(c) == c \in {" ", "\t", "\r", "\n"}

RECURSIVE TrimStart(_)
TrimStart(s) ==
  IF Len(s) > 0 /\ IsWhiteSpace(s[1]) THEN TrimStart(Tail(s)) ELSE s

RECURSIVE TrimEnd(_)
TrimEnd(s) ==
  IF Len(s) > 0 /\ IsWhiteSpace(s[Len(s)])
  THEN TrimEnd(SubSeq(s, 1, Len(s) - 1)) ELSE s

\* String.prototype.trim
Trim(s) == TrimEnd(TrimStart(s))

\* String.prototype.slice(b, e): 0-based, end exclusive, negative indices
\* count from the end, both clamped to the string
Slice(s, b, e) ==
  LET n == Len(s)
      clamp(x) == IF x < 0 THEN (IF n + x < 0 THEN 0 ELSE n + x)
                  ELSE (IF x > n THEN n ELSE x)
      from == clamp(b)
      to == clamp(e)
  IN  IF from < to THEN SubSeq(s, from + 1, to) ELSE << >>

\* content.split(/\r?\n/): the pieces between the separators, a separator
\* being "\n" with the "\r" right before it, if any
SplitLines(s) ==
  LET breaks == {i \in 1..Len(s) : s[i] = "\n"}
      \* the position of the k-th separator's "\n"; 0 and Len(s) + 1 at the ends
      breakAt(k) == IF k = 0 THEN 0
                    ELSE IF k > Cardinality(breaks) THEN Len(s) + 1
                    ELSE CHOOSE i \in breaks : Cardinality({j \in breaks : j < i}) = k - 1
      piece(k) == LET from == breakAt(k - 1) + 1
                      to == breakAt(k) - 1
                  IN  IF to <= Len(s) - 1 /\ to >= from /\ s[to] = "\r"
                      THEN SubSeq(s, from, to - 1)
                      ELSE SubSeq(s, from, to)
  IN  [k \in 1..(Cardinality(breaks) + 1) |-> piece(k)]

\* Array.prototype.join('\n')
RECURSIVE JoinLines(_)
JoinLines(ls) ==
  IF Len(ls) = 0 THEN << >>
  ELSE IF Len(ls) = 1 THEN ls[1]
  ELSE ls[1] \o <<"\n">> \o JoinLines(Tail(ls))

RECURSIVE HexPrefixLen(_)
HexPrefixLen(s) ==
  IF Len(s) > 0 /\ IsHexChar(s[1]) THEN 1 + HexPrefixLen(Tail(s)) ELSE 0

RECURSIVE HexDigitsValue(_, _)
HexDigitsValue(s, acc) ==
  IF Len(s) = 0 THEN acc ELSE HexDigitsValue(Tail(s), acc * 16 + HexValue(s[1]))

\* parseInt(s, 16): leading white space, an optional sign, an optional 0x,
\* then the longest prefix of hex digits; NaN when that prefix is empty
ParseInt16(s) ==
  LET t == TrimStart(s)
      signed == Len(t) > 0 /\ t[1] \in {"+", "-"}
      negative == Len(t) > 0 /\ t[1] = "-"
      u == IF signed THEN Tail(t) ELSE t
      v == IF Len(u) >= 2 /\ u[1] = "0" /\ u[2] \in {"x", "X"}
           THEN SubSeq(u, 3, Len(u)) ELSE u
      n == HexPrefixLen(v)
      magnitude == HexDigitsValue(SubSeq(v, 1, n), 0)
  IN  IF n = 0 THEN NaN
      ELSE IF negative THEN Some(0 - magnitude) ELSE Some(magnitude)

RECURSIVE ToString16(_)
ToString16(n) ==
  IF n < 0 THEN <<"-">> \o ToString16(0 - n)
  ELSE IF n < 16 THEN <<LowerHexDigits[n + 1]>>
  ELSE ToString16(n \div 16) \o <<LowerHexDigits[(n % 16) + 1]>>

RECURSIVE PadStart(_, _)
PadStart(s, width) == IF Len(s) >= width THEN s ELSE PadStart(<<"0">> \o s, width)

\* toHex(value, width)
toHex(value, width) == PadStart(ToUpperCase(ToString16(value)), width)

(***************************************************************************)
(* JavaScript numbers that hold addresses: <<hi, lo>> = hi * 65536 + lo    *)
(***************************************************************************)
NumOf(n) == <<n \div 65536, n % 65536>>
NumAdd(a, k) == <<a[1] + ((a[2] + k) \div 65536), (a[2] + k) % 65536>>
NumLT(a, b) == a[1] < b[1] \/ (a[1] = b[1] /\ a[2] < b[2])
NumLE(a, b) == a = b \/ NumLT(a, b)

\* ToInt32 of a 16-bit-wide upper half: two's complement sign
Signed16(h) == IF h % 65536 >= 32768 THEN (h % 65536) - 65536 ELSE h % 65536

\* x << 16 on a small integer x: the result is a signed 32-bit integer
ShiftLeft16(x) == <<Signed16(x), 0>>
\* x << 4 on a small integer x (|x| <= 0xFFFF: no 32-bit wrap)
ShiftLeft4(x) == NumOf(x * 16)
\* (a >>> 16) & 0xFFFF
UpperOf(a) == a[1] % 65536
\* a & 0xFFFF
Low16(a) == a[2]
\* a & ~0xF: a signed 32-bit integer
AndNot15(a) == <<Signed16(a[1]), a[2] - (a[2] % 16)>>

\* [...keys].sort((a, b) => a - b)
RECURSIVE SortAscending(_)
SortAscending(S) ==
  IF S = {} THEN << >>
  ELSE LET m == CHOOSE x \in S : \A y \in S : NumLE(x, y)
       IN  <<m>> \o SortAscending(S \ {m})

\* Map.prototype.set / get
MapSet(m, k, v) == [x \in (DOMAIN m) \cup {k} |-> IF x = k THEN v ELSE m[x]]
MapGet(m, k) == IF k \in DOMAIN m THEN Some(m[k]) ELSE Undefined
EmptyMap == << >>

(***************************************************************************)
(* parseIntelHex                                                           *)
(***************************************************************************)
\* the for loop of a data record: bytes.set(base + addr + i, value)
RECURSIVE DataLoop(_, _, _, _, _, _)
DataLoop(bytes, base, addr, data, ll, i) ==
  IF i >= ll THEN bytes
  ELSE LET value == ParseInt16(Slice(data, i * 2, i * 2 + 2))
       IN  IF value = NaN THEN DataLoop(bytes, base, addr, data, ll, i + 1)
           ELSE DataLoop(MapSet(bytes, NumAdd(base, addr + i), value[1]),
                         base, addr, data, ll, i + 1)

\* one iteration of the loop over lines; st = [bytes, base, stop]
ParseLine(st, raw) ==
  LET line == Trim(raw)
  IN  IF Len(line) = 0 \/ line[1] # ":" \/ Len(line) < 11 THEN st
      ELSE LET ll == ParseInt16(Slice(line, 1, 3))
               addr == ParseInt16(Slice(line, 3, 7))
               rectype == ParseInt16(Slice(line, 7, 9))
           IN  IF ll = NaN \/ addr = NaN \/ rectype = NaN THEN st
               ELSE LET data == Slice(line, 9, 9 + ll[1] * 2)
                    IN  IF rectype[1] = 0
                        THEN [st EXCEPT !.bytes =
                                DataLoop(st.bytes, st.base, addr[1], data, ll[1], 0)]
                        ELSE IF rectype[1] = 4 /\ ll[1] = 2
                        THEN LET upper == ParseInt16(data)
                             IN  IF upper # NaN
                                 THEN [st EXCEPT !.base = ShiftLeft16(upper[1])]
                                 ELSE st
                        ELSE IF rectype[1] = 2 /\ ll[1] = 2
                        THEN LET seg == ParseInt16(data)
                             IN  IF seg # NaN
                                 THEN [st EXCEPT !.base = ShiftLeft4(seg[1])]
                                 ELSE st
                        ELSE IF rectype[1] = 1
                        THEN [st EXCEPT !.stop = TRUE]
                        ELSE st

RECURSIVE ParseLines(_, _)
ParseLines(st, lines) ==
  IF Len(lines) = 0 \/ st.stop THEN st
  ELSE ParseLines(ParseLine(st, lines[1]), Tail(lines))

parseIntelHex(c) ==
  ParseLines([bytes |-> EmptyMap, base |-> NumOf(0), stop |-> FALSE],
             SplitLines(c)).bytes

(***************************************************************************)
(* buildIntelHex                                                           *)
(***************************************************************************)
RECURSIVE SumOf(_)
SumOf(data) == IF Len(data) = 0 THEN 0 ELSE data[1] + SumOf(Tail(data))

RECURSIVE Payload(_)
Payload(data) == IF Len(data) = 0 THEN << >> ELSE toHex(data[1], 2) \o Payload(Tail(data))

\* emitRecord, line 98: the sum the checksum is taken of
RecordSumNoType(addr16, type, data) ==
  Len(data) + ((addr16 \div 256) % 256) + (addr16 % 256) + SumOf(data)

RecordSum(addr16, type, data) ==
  Len(data) + ((addr16 \div 256) % 256) + (addr16 % 256) + type + SumOf(data)

\* emitRecord: the line it pushes
emitRecord(addr16, type, data) ==
  LET ll == Len(data)
      sum == RecordSum(addr16, type, data)
      csum == (0 - sum) % 256
  IN  <<":">> \o toHex(ll, 2) \o toHex(addr16, 4) \o toHex(type, 2)
        \o Payload(data) \o toHex(csum, 2)

\* the inner while loop: how many addresses from index i on continue the run
\* that starts at `start`, up to 16
RECURSIVE ChunkLength(_, _, _, _)
ChunkLength(addresses, i, start, n) ==
  IF i + n <= Len(addresses) /\ addresses[i + n] = NumAdd(start, n) /\ n < 16
  THEN ChunkLength(addresses, i, start, n + 1)
  ELSE n

\* the outer while loop (i is 1-based here)
RECURSIVE BuildLoop(_, _, _, _, _)
BuildLoop(bytes, addresses, i, currentUpper, lines) ==
  IF i > Len(addresses) THEN lines
  ELSE LET start == addresses[i]
           upper == UpperOf(start)
           lines1 == IF upper # currentUpper
                     THEN Append(lines, emitRecord(0, 4, <<(upper \div 256) % 256, upper % 256>>))
                     ELSE lines
           n == ChunkLength(addresses, i, start, 0)
           chunk == [k \in 1..n |-> bytes[addresses[i + k - 1]]]
       IN  BuildLoop(bytes, addresses, i + n, upper,
                     Append(lines1, emitRecord(Low16(start), 0, chunk)))

EOFRecord == <<":", "0", "0", "0", "0", "0", "0", "0", "1", "F", "F">>

\* the record lines buildIntelHex joins
buildLines(bytes) ==
  LET addresses == SortAscending(DOMAIN bytes)
  IN  IF Len(addresses) = 0 THEN <<EOFRecord>>
      ELSE Append(BuildLoop(bytes, addresses, 1, -1, << >>), EOFRecord)

buildIntelHex(bytes) == JoinLines(buildLines(bytes))

(***************************************************************************)
(* toDumpRows                                                              *)
(***************************************************************************)
\* one character of the ascii cell, as its character code ('.' is 46)
AsciiCell(value) ==
  IF value = Undefined THEN 46
  ELSE IF value[1] >= 32 /\ value[1] <= 126 THEN value[1]
  ELSE 46

WordCell(bytes, base, word) ==
  LET bytesInWord == [i \in 1..4 |-> MapGet(bytes, NumAdd(base, word * 4 + (i - 1)))]
  IN  IF \E i \in 1..4 : bytesInWord[i] = Undefined
      THEN <<".", ".", ".", ".", ".", ".", ".", ".">>
      ELSE toHex(bytesInWord[1][1], 2) \o toHex(bytesInWord[2][1], 2)
             \o toHex(bytesInWord[3][1], 2) \o toHex(bytesInWord[4][1], 2)

DumpRow(bytes, base) ==
  [address |-> base,
   words |-> [w \in 1..4 |-> WordCell(bytes, base, w - 1)],
   ascii |-> [j \in 1..16 |-> AsciiCell(MapGet(bytes, NumAdd(base, j - 1)))]]

\* addr & ~0xF, line 135
RowBaseOf(addr) == AndNot15(addr)

toDumpRows(bytes, rgn) ==
  LET entries == {addr \in DOMAIN bytes :
                    rgn = Null \/ (NumLE(rgn[1].start, addr) /\ NumLE(addr, rgn[1].end))}
      rowBases == {RowBaseOf(addr) : addr \in entries}
      rows == SortAscending(rowBases)
  IN  [r \in 1..Len(rows) |-> DumpRow(bytes, rows[r])]

(***************************************************************************)
(* Inputs of the codec pipeline                                            *)
(***************************************************************************)
\* ':020000047FFF7C'
LineLinear7FFF ==
  <<":", "0", "2", "0", "0", "0", "0", "0", "4", "7", "F", "F", "F", "7", "C">>
\* ':0200000480007A'
LineLinear8000 ==
  <<":", "0", "2", "0", "0", "0", "0", "0", "4", "8", "0", "0", "0", "7", "A">>
\* ':020000040001F9'
LineLinear0001 ==
  <<":", "0", "2", "0", "0", "0", "0", "0", "4", "0", "0", "0", "1", "F", "9">>
\* ':020000021000EC'
LineSegment1000 ==
  <<":", "0", "2", "0", "0", "0", "0", "0", "2", "1", "0", "0", "0", "E", "C">>
\* ':02FFFF00A1B2AD'
LineDataFFFF ==
  <<":", "0", "2", "F", "F", "F", "F", "0", "0", "A", "1", "B", "2", "A", "D">>
\* ':02FFFF00ZZ4100'
LineDataSkip ==
  <<":", "0", "2", "F", "F", "F", "F", "0", "0", "Z", "Z", "4", "1", "0", "0">>
\* ':01000000FF00'
LineData0000 ==
  <<":", "0", "1", "0", "0", "0", "0", "0", "0", "F", "F", "0", "0">>
\* ':030010004a6b7eba\r'
LineDataLower ==
  <<":", "0", "3", "0", "0", "1", "0", "0", "0", "4", "a", "6", "b", "7", "e", "b", "a", "\r">>
\* ':11FFF000303132333435363738393A3B3C3D3E3F4048'
LineData17 ==
  <<":", "1", "1", "F", "F", "F", "0", "0", "0", "3", "0", "3", "1", "3", "2", "3", "3", "3", "4", "3", "5", "3", "6", "3", "7", "3", "8", "3", "9", "3", "A", "3", "B", "3", "C", "3", "D", "3", "E", "3", "F", "4", "0", "4", "8">>
\* ':00000001FF'
LineEOF ==
  <<":", "0", "0", "0", "0", "0", "0", "0", "1", "F", "F">>
\* '; note'
LineJunk ==
  <<";", " ", "n", "o", "t", "e">>

LinePool ==
  {LineLinear7FFF, LineLinear8000, LineLinear0001, LineSegment1000, LineDataFFFF,
   LineDataSkip, LineData0000, LineDataLower, LineData17, LineEOF, LineJunk}

\* the longest input text, in lines
MaxLines == 3

InputTexts ==
  {JoinLines(ls) : ls \in UNION {[1..n -> LinePool] : n \in 0..MaxLines}}

\* commonHexRegions: PFLASH (cached), 0x80000000 .. 0x81FFFFFF
PFLASH_C == [id |-> "PFLASH_C", start |-> <<32768, 0>>, end |-> <<33279, 65535>>]
\* a caller's region over the first 64KB bank, 0x00000000 .. 0x0000FFFF
LowRegion == [id |-> "LOW", start |-> <<0, 0>>, end |-> <<0, 65535>>]

RegionInputs == {Null, Some(PFLASH_C), Some(LowRegion)}

(***************************************************************************)
(* The codec pipeline: decode an input text, encode the image, decode the  *)
(* encoding again; or project the image to dump rows.                      *)
(***************************************************************************)
Docs == {"a.hex", "b.hex"}

EditorIdle ==
  /\ open = {}
  /\ text = [d \in Docs |-> << >>]
  /\ view = [d \in Docs |-> << >>]
  /\ applying = FALSE
  /\ handlers = {}
  /\ nMsgs = 0
  /\ lastMsg = << >>
  /\ nChanges = 0
  /\ stray = FALSE

CodecIdle ==
  /\ content = << >>
  /\ region = Null
  /\ phase = "idle"
  /\ image = EmptyMap
  /\ hex = << >>
  /\ reparsed = EmptyMap
  /\ dump = << >>

InitCodec ==
  /\ content \in InputTexts
  /\ region = Null
  /\ phase = "input"
  /\ image = EmptyMap
  /\ hex = << >>
  /\ reparsed = EmptyMap
  /\ dump = << >>
  /\ EditorIdle

Decode ==
  /\ phase = "input"
  /\ image' = parseIntelHex(content)
  /\ phase' = "decoded"
  /\ UNCHANGED <<content, region, hex, reparsed, dump>>
  /\ UNCHANGED editorVars

Encode ==
  /\ phase = "decoded"
  /\ hex' = buildIntelHex(image)
  /\ phase' = "encoded"
  /\ UNCHANGED <<content, region, image, reparsed, dump>>
  /\ UNCHANGED editorVars

Redecode ==
  /\ phase = "encoded"
  /\ reparsed' = parseIntelHex(hex)
  /\ phase' = "redecoded"
  /\ UNCHANGED <<content, region, image, hex, dump>>
  /\ UNCHANGED editorVars

Project ==
  /\ phase = "decoded"
  /\ \E r \in RegionInputs :
       /\ region' = r
       /\ dump' = toDumpRows(image, r)
  /\ phase' = "projected"
  /\ UNCHANGED <<content, image, hex, reparsed>>
  /\ UNCHANGED editorVars

NextCodec == Decode \/ Encode \/ Redecode \/ Project

SpecCodec == InitCodec /\ [][NextCodec]_vars

(***************************************************************************)
(* Claims about the codec and the projection (checked under SpecCodec)     *)
(***************************************************************************)
\* an address that fits in 32 bits, read as signed or as unsigned
FitsIn32Bits(a) == a[1] >= -32768 /\ a[1] <= 65535

\* C1: round-trip identity.  For every non-empty image that parseIntelHex
\* produced from an input text, all addresses fitting in 32 bits, decoding the
\* encoding of the image gives a map with the same keys and the same byte at
\* every key.
C1_RoundTrip ==
  (/\ phase = "redecoded"
   /\ image # EmptyMap
   /\ \A a \in DOMAIN image : FitsIn32Bits(a))
  => /\ DOMAIN reparsed = DOMAIN image
     /\ \A a \in DOMAIN image : reparsed[a] = image[a]

\* the fields of an emitted record line
RecordType(line) == ParseInt16(Slice(line, 7, 9))[1]
RecordLength(line) == ParseInt16(Slice(line, 1, 3))[1]
RecordAddress(line) == ParseInt16(Slice(line, 3, 7))[1]
RecordByte(line, k) == ParseInt16(Slice(line, 9 + 2 * k, 11 + 2 * k))[1]

\* the bank announced by the most recent EXT_LINEAR record before line i
\* (-1: none yet)
RECURSIVE AnnouncedBank(_, _)
AnnouncedBank(lines, i) ==
  IF i <= 1 THEN -1
  ELSE IF RecordType(lines[i - 1]) = 4
       THEN RecordByte(lines[i - 1], 0) * 256 + RecordByte(lines[i - 1], 1)
       ELSE AnnouncedBank(lines, i - 1)

\* the banks of the bytes data record i carries: the record's bytes are the
\* image's addresses from the chunk's first address on
BanksCarried(lines, i) ==
  LET bank == AnnouncedBank(lines, i)
  IN  {(bank + ((RecordAddress(lines[i]) + k) \div 65536)) % 65536 :
         k \in 0..(RecordLength(lines[i]) - 1)}

\* C2: bank-switch correctness.  The encoding of an image holds exactly one
\* EXT_LINEAR record for each 64KB bank with a present byte, each right before
\* the first data record carrying a byte of that bank, and none elsewhere; no
\* data record carries a byte of a bank other than the announced one.
C2_BankSwitch ==
  (phase = "encoded" /\ image # EmptyMap) =>
    LET lines == SplitLines(hex)
        linear == {i \in 1..Len(lines) : RecordType(lines[i]) = 4}
        data == {i \in 1..Len(lines) : RecordType(lines[i]) = 0}
        banks == {UpperOf(a) : a \in DOMAIN image}
    IN  /\ Cardinality(linear) = Cardinality(banks)
        /\ \A b \in banks :
             \E i \in linear :
               /\ AnnouncedBank(lines, i + 1) = b
               /\ i + 1 \in data
               /\ b \in BanksCarried(lines, i + 1)
               /\ \A j \in data : j < i + 1 => b \notin BanksCarried(lines, j)
        /\ \A j \in data : BanksCarried(lines, j) = {AnnouncedBank(lines, j)}

RECURSIVE RecordBytesSum(_, _)
RecordBytesSum(line, k) ==
  IF 2 * k + 1 >= Len(line) THEN 0
  ELSE ParseInt16(Slice(line, 2 * k + 1, 2 * k + 3))[1] + RecordBytesSum(line, k + 1)

\* a record line whose bytes (length, address high and low, type, payload and
\* checksum) sum to 0 modulo 256, with every field in upper-case hex digits
\* and the checksum in the last two of them
ChecksumCorrect(line) ==
  /\ Len(line) >= 11
  /\ line[1] = ":"
  /\ \A i \in 2..Len(line) : IsUpperHexChar(line[i])
  /\ Len(line) = 11 + 2 * RecordLength(line)
  /\ RecordBytesSum(line, 0) % 256 = 0

\* C3: checksum correctness.  Every record line buildIntelHex emits
\* (EXT_LINEAR, DATA, EOF), for an image of bytes 0..255, sums to 0 modulo 256
\* over length, address bytes, type, payload and checksum, the checksum being
\* two upper-case hex digits.
C3_Checksum ==
  (/\ phase \in {"encoded", "redecoded"}
   /\ \A a \in DOMAIN image : image[a] \in 0..255)
  => LET lines == SplitLines(hex)
     IN  \A i \in 1..Len(lines) : ChecksumCorrect(lines[i])

\* C3 witness: an encoding with an EXT_LINEAR record for a non-zero bank, a
\* data record of 16 bytes and a record whose checksum is not 00.
C3_Witness ==
  /\ phase = "encoded"
  /\ LET lines == SplitLines(hex)
     IN  /\ \E i \in 1..Len(lines) :
               RecordType(lines[i]) = 4 /\ RecordByte(lines[i], 0) # 0
         /\ \E i \in 1..Len(lines) :
               RecordType(lines[i]) = 0 /\ RecordLength(lines[i]) = 16
         /\ \E i \in 1..Len(lines) :
               RecordType(lines[i]) = 0
               /\ RecordByte(lines[i], RecordLength(lines[i])) # 0

\* the 16-byte-aligned base of an address, as a number
AlignedBase(a) == <<a[1], a[2] - (a[2] % 16)>>

\* C4: row derivation.  For any image and any optional region filter the rows
\* are in strictly ascending base-address order, one row for each distinct
\* 16-byte-aligned base holding a present byte among the filtered addresses,
\* no base twice, and no row whose 16 addresses are all absent from the image.
C4_RowDerivation ==
  phase = "projected" =>
    LET filtered == {a \in DOMAIN image :
                       region = Null \/ (NumLE(region[1].start, a) /\ NumLE(a, region[1].end))}
    IN  /\ \A i, j \in 1..Len(dump) : i < j => NumLT(dump[i].address, dump[j].address)
        /\ {dump[i].address : i \in 1..Len(dump)} = {AlignedBase(a) : a \in filtered}
        /\ \A i \in 1..Len(dump) :
             \E k \in 0..15 : NumAdd(dump[i].address, k) \in DOMAIN image

(***************************************************************************)
(* The custom editor: TaskingHexCustomEditor.resolveCustomTextEditor and   *)
(* the host that owns the documents (Spec)                                 *)
(***************************************************************************)
\* bounds of the editor model
MaxHandlers == 2
MaxMsgs == 2
MaxChanges == 1

\* document texts the host starts with or changes a document to
DocTexts ==
  {JoinLines(<<LineData0000, LineEOF>>),
   JoinLines(<<LineLinear8000, LineDataLower>>)}

\* message.address after Number(): a value Number.isFinite refuses (NaN, an
\* infinity), or a finite number
AddressInputs ==
  {[finite |-> FALSE, num |-> <<0, 0>>],         \* NaN, Infinity
   [finite |-> TRUE, num |-> <<0, 65534>>],      \* 0x0000FFFE
   [finite |-> TRUE, num |-> <<32768, 0>>],      \* 0x80000000
   [finite |-> TRUE, num |-> <<-1, 65535>>]}     \* -1

ValueInputs ==
  {<<"d", "e", "a", "d", "B", "E", "E", "F">>,
   <<"1", "2", "G", "4", "5", "6", "7", "8">>,
   <<"1", "2", "3", "4", "5", "6", "7">>}

MessageInputs ==
  {[type |-> "editWord", address |-> a, value |-> v] :
     a \in AddressInputs, v \in ValueInputs}
  \cup {[type |-> "ready", address |-> [finite |-> TRUE, num |-> <<0, 0>>],
         value |-> << >>]}

\* /^[0-9A-F]{8}$/.test(value)
IsEightHexDigits(value) ==
  Len(value) = 8 /\ \A i \in 1..8 : IsUpperHexChar(value[i])

\* lines 507-510: the four bytes of the value
NewBytesOf(value) == [i \in 1..4 |-> ParseInt16(Slice(value, 2 * (i - 1), 2 * i))[1]]

\* lines 512-514: bytes.set(addr + i, newBytes[i]) for i = 0..3
RECURSIVE SetBytes(_, _, _, _)
SetBytes(bytes, addr, newBytes, i) ==
  IF i >= 4 THEN bytes
  ELSE SetBytes(MapSet(bytes, NumAdd(addr, i), newBytes[i + 1]), addr, newBytes, i + 1)

\* the rows updateWebview and the update messages carry
RowsOf(t) == toDumpRows(parseIntelHex(t), Null)

\* line 504 negated: the request is let through
Accepts(msg) ==
  /\ msg.address.finite
  /\ IsEightHexDigits(ToUpperCase(msg.value))

\* the onDidChangeTextDocument listener of document d's session, run when the
\* host reports that document d changed to text t: the view it leaves
OnDidChangeTextDocument(d, t, flag, vw) ==
  IF d \notin open THEN vw
  ELSE IF flag THEN vw
  ELSE [vw EXCEPT ![d] = RowsOf(t)]

Init ==
  /\ open = {}
  /\ text \in [Docs -> DocTexts]
  /\ view = [d \in Docs |-> << >>]
  /\ applying = FALSE
  /\ handlers = {}
  /\ nMsgs = 0
  /\ lastMsg = << >>
  /\ nChanges = 0
  /\ stray = FALSE
  /\ CodecIdle

\* resolveCustomTextEditor up to updateWebview(): the session is registered
\* and the webview gets the rows of the current text
ResolveCustomTextEditor(d) ==
  /\ d \notin open
  /\ open' = open \cup {d}
  /\ view' = [view EXCEPT ![d] = RowsOf(text[d])]
  /\ UNCHANGED <<text, applying, handlers, nMsgs, lastMsg, nChanges, stray>>
  /\ UNCHANGED codecVars

\* the host changes document d (an edit made outside this editor) and fires
\* onDidChangeTextDocument
ExternalChange(d) ==
  /\ nChanges < MaxChanges
  /\ \E t \in DocTexts \ {text[d]} :
       /\ text' = [text EXCEPT ![d] = t]
       /\ view' = OnDidChangeTextDocument(d, t, applying, view)
  /\ nChanges' = nChanges + 1
  /\ UNCHANGED <<open, applying, handlers, nMsgs, lastMsg, stray>>
  /\ UNCHANGED codecVars

\* onDidReceiveMessage from its start to the first await (lines 499-524)
OnDidReceiveMessage(d) ==
  /\ d \in open
  /\ nMsgs < MaxMsgs
  /\ \E msg \in MessageInputs :
       /\ nMsgs' = nMsgs + 1
       /\ lastMsg' = Some(msg)
       /\ IF msg.type # "editWord" \/ ~Accepts(msg)
          THEN UNCHANGED <<text, view, applying, handlers, stray>>
          ELSE LET addr == msg.address.num
                   value == ToUpperCase(msg.value)
                   newBytes == NewBytesOf(value)
                   bytes == SetBytes(parseIntelHex(text[d]), addr, newBytes, 0)
                   newHex == buildIntelHex(bytes)
                   free == (1..MaxHandlers) \ {h.id : h \in handlers}
               IN  /\ free # {}
                   /\ handlers' = handlers \cup
                        {[id |-> CHOOSE i \in free : \A j \in free : i <= j,
                          doc |-> d, addr |-> addr, newBytes |-> newBytes,
                          oldText |-> text[d], newHex |-> newHex,
                          pc |-> "applyEdit", applied |-> FALSE]}
                   /\ applying' = TRUE
                   /\ stray' = (stray \/ addr[1] < 0)
                   /\ UNCHANGED <<text, view>>
  /\ UNCHANGED <<open, nChanges>>
  /\ UNCHANGED codecVars

\* the host commits the replacement (applyEdit resolves true): the document
\* holds the new text, onDidChangeTextDocument fires, the handler goes on to
\* document.save().  The host applies an edit only to the document version it
\* was made for.
ApplyEditDone(h) ==
  /\ h.pc = "applyEdit"
  /\ text[h.doc] = h.oldText
  /\ text' = [text EXCEPT ![h.doc] = h.newHex]
  /\ view' = IF h.newHex # text[h.doc]
             THEN OnDidChangeTextDocument(h.doc, h.newHex, applying, view)
             ELSE view
  /\ handlers' = (handlers \ {h}) \cup {[h EXCEPT !.pc = "save", !.applied = TRUE]}
  /\ UNCHANGED <<open, applying, nMsgs, lastMsg, nChanges, stray>>
  /\ UNCHANGED codecVars

\* the host refuses the replacement (applyEdit resolves false)
ApplyEditRefused(h) ==
  /\ h.pc = "applyEdit"
  /\ handlers' = (handlers \ {h}) \cup {[h EXCEPT !.pc = "save"]}
  /\ UNCHANGED <<open, text, view, applying, nMsgs, lastMsg, nChanges, stray>>
  /\ UNCHANGED codecVars

\* applyEdit or save rejects: the await throws and the handler ends there
AwaitThrows(h) ==
  /\ handlers' = handlers \ {h}
  /\ UNCHANGED <<open, text, view, applying, nMsgs, lastMsg, nChanges, stray>>
  /\ UNCHANGED codecVars

\* document.save() resolves: lines 526-530
SaveDone(h) ==
  /\ h.pc = "save"
  /\ applying' = FALSE
  /\ view' = [view EXCEPT ![h.doc] = RowsOf(text[h.doc])]
  /\ handlers' = handlers \ {h}
  /\ UNCHANGED <<open, text, nMsgs, lastMsg, nChanges, stray>>
  /\ UNCHANGED codecVars

Next ==
  \/ \E d \in Docs : ResolveCustomTextEditor(d)
  \/ \E d \in Docs : ExternalChange(d)
  \/ \E d \in Docs : OnDidReceiveMessage(d)
  \/ \E h \in handlers : ApplyEditDone(h)
  \/ \E h \in handlers : ApplyEditRefused(h)
  \/ \E h \in handlers : AwaitThrows(h)
  \/ \E h \in handlers : SaveDone(h)

Spec == Init /\ [][Next]_vars

(***************************************************************************)
(* Claims about the editor (checked under Spec)                            *)
(***************************************************************************)
\* the request just received is one the rule "value is exactly 8 hex digits
\* after case normalization, and address is a non-negative integer" rejects
RejectedByRule(msg) ==
  \/ ~IsEightHexDigits(ToUpperCase(msg.value))
  \/ ~msg.address.finite
  \/ msg.address.num[1] < 0

\* C5: edit rejection.  An editWord request whose value is not exactly 8 hex
\* digits, or whose address is not a non-negative integer, changes nothing: no
\* replacement is requested, the flag, the document text and the rows stay as
\* they were.
C5_EditRejection ==
  [][(/\ nMsgs' = nMsgs + 1
      /\ lastMsg'[1].type = "editWord"
      /\ RejectedByRule(lastMsg'[1]))
     => UNCHANGED <<text, view, applying, handlers>>]_vars

\* C6: self-edit flag release.  The flag is cleared on every exit path of the
\* edit handler, so it is never true once no edit handler is in flight (stated
\* for runs whose edits all had non-negative addresses).
C6_FlagReleased ==
  (handlers = {} /\ ~stray) => applying = FALSE

\* C7: events are handled to completion.  At no time are two edit handlers in
\* flight (stated for runs whose edits all had non-negative addresses).
C7_NoOverlap ==
  ~stray => Cardinality(handlers) <= 1

\* C8: document isolation.  While an edit handler of another document is in
\* flight and none of document d is, a change of d's text made by the host is
\* reacted to: d's webview gets the rows of d's new text (stated for runs
\* whose edits all had non-negative addresses).
C8_Isolation ==
  [][\A d \in open :
       (/\ ~stray
        /\ text'[d] # text[d]
        /\ \A h \in handlers : h.doc # d
        /\ \E h \in handlers : h.doc # d)
       => view'[d] = RowsOf(text'[d])]_vars

\* the image with exactly the addresses A, A+1, A+2, A+3 set to the four bytes
ImageWithWord(m, A, b) ==
  LET word == {NumAdd(A, i) : i \in 0..3}
  IN  [x \in (DOMAIN m) \cup word |->
         IF x \in word THEN b[(CHOOSE i \in 0..3 : NumAdd(A, i) = x) + 1] ELSE m[x]]

\* C9: frame of a word edit.  When the replacement of a valid edit at an
\* unsigned 32-bit address A is committed, the image decoded from the committed
\* text is the image decoded from the text it replaced with exactly A..A+3 set
\* to the four bytes of the value.
C9_WordEditFrame ==
  [][\A h \in handlers :
       (/\ h.pc = "applyEdit"
        /\ [h EXCEPT !.pc = "save", !.applied = TRUE] \in handlers'
        /\ h.addr[1] >= 0 /\ h.addr[1] <= 65535)
       => parseIntelHex(text'[h.doc])
            = ImageWithWord(parseIntelHex(text[h.doc]), h.addr, h.newBytes)]_vars

\* C10: the view reflects what is stored.  After any sequence of edits with
\* non-negative addresses and of external changes, whenever no handler is in
\* flight, the rows last delivered to each open document's webview are the
\* rows of the document's current text.
C10_ViewIsCurrent ==
  (handlers = {} /\ ~stray) => \A d \in open : view[d] = RowsOf(text[d])

=============================================================================
